---- MODULE Spec2Model ----
(***************************************************************************)
(* Model of consultaitp.py, a Streamlit page: a memoised loader            *)
(* (load_itp_data, st.cache_resource ttl=86400, Parquet snapshots on disk,  *)
(* HTTP download on a snapshot miss), the cascading state / search /        *)
(* entity widgets, the "Gerar Downloads" filter-and-export block and the    *)
(* "Limpar" button.  One action is one run of the script, started by one    *)
(* user event; Tick is the passage of time.                                 *)
(***************************************************************************)
EXTENDS Integers, Sequences, FiniteSets, TLC

VARIABLES
    clock,      \* wall clock, in seconds
    remote,     \* what the two URLs serve: year -> table
    disk,       \* .cache_itp/itp_<year>.parquet: year -> file
    memo,       \* the st.cache_resource entry of load_itp_data
    sel,        \* st.session_state of the three keyed widgets
    view,       \* what the last script run rendered
    lastLoad    \* record of the last call of load_itp_data

vars == <<clock, remote, disk, memo, sel, view, lastLoad>>

----------------------------------------------------------------------------
(* Bounds of the model *)

MaxTicks == 3
MaxRows == 2

----------------------------------------------------------------------------
(* Strings are sequences of characters; "" is <<>>. *)

Chars == {"/", "P", "R", "S", "X", "_", "p", "x", "y"}

\* Code points, the order sorted() compares Python strings by.
Ord(c) ==
    CASE c = "/" -> 47 [] c = "P" -> 80 [] c = "R" -> 82 [] c = "S" -> 83
      [] c = "X" -> 88 [] c = "_" -> 95 [] c = "p" -> 112 [] c = "x" -> 120
      [] c = "y" -> 121

\* str.lower() on one character.
LowerChar(c) ==
    CASE c = "P" -> "p" [] c = "X" -> "x" [] c = "R" -> "r" [] c = "S" -> "s"
      [] OTHER -> c

\* str.lower()
Lower(s) == [i \in 1..Len(s) |-> LowerChar(s[i])]

\* The substring test `a in b`.
Contains(b, a) ==
    \E i \in 0..(Len(b) - Len(a)) : SubSeq(b, i + 1, i + Len(a)) = a

\* str.replace(old, new) for single characters.
ReplaceChar(s, old, new) == [i \in 1..Len(s) |-> IF s[i] = old THEN new ELSE s[i]]

Min(a, b) == IF a < b THEN a ELSE b

\* s[:n]
Prefix(s, n) == SubSeq(s, 1, Min(n, Len(s)))

RECURSIVE StrLess(_, _)
\* a < b on Python strings: lexicographic on code points.
StrLess(a, b) ==
    IF Len(b) = 0 THEN FALSE
    ELSE IF Len(a) = 0 THEN TRUE
    ELSE IF a[1] # b[1] THEN Ord(a[1]) < Ord(b[1])
    ELSE StrLess(Tail(a), Tail(b))

RECURSIVE Sorted(_)
\* sorted(list(S)) for a set S of strings.
Sorted(S) ==
    IF S = {} THEN <<>>
    ELSE LET m == CHOOSE x \in S : \A y \in S : x = y \/ StrLess(x, y)
         IN  <<m>> \o Sorted(S \ {m})

Range(s) == {s[i] : i \in 1..Len(s)}

----------------------------------------------------------------------------
(* Tables *)

Years == {"2025", "2024"}

PR == <<"P", "R">>
SP == <<"S", "P">>
States == {PR, SP}

PrefX == <<"P", "x">>
PrefY == <<"P", "/", "y">>
CamX == <<"p", "X">>
Entities == {PrefX, PrefY, CamX}

\* A missing cell (NaN / pd.NA): equal to no selectable value.
NA == <<"<NA>">>

\* A row: the two key cells and one questionnaire cell.
Row(e, n, v) == [estado |-> e, entidade |-> n, valor |-> v]

\* A DataFrame: its column names and its rows in order.
Table(c, r) == [cols |-> c, rows |-> r]

\* pd.DataFrame()
EmptyDataFrame == Table({}, <<>>)

\* None, as a value of df_2025 / df_2024.
None == [none |-> TRUE]

AllCols == {"estado", "entidade", "valor"}

\* df.empty
IsEmpty(df) == Len(df.rows) = 0

\* The tables the remote endpoint may serve.
Datasets ==
    { Table(AllCols, <<Row(PR, PrefX, 10), Row(SP, PrefY, 20)>>),
      Table(AllCols, <<Row(PR, CamX, 11), Row(PR, NA, 12)>>),
      Table({"estado", "valor"}, <<Row(SP, NA, 30)>>),
      Table(AllCols, <<>>) }

\* The table of snapshots an earlier process may have left in .cache_itp.
OldDataset == Table(AllCols, <<Row(SP, CamX, 5), Row(SP, PrefX, 6)>>)

----------------------------------------------------------------------------
(* load_itp_data *)

TTL == 86400

\* A Parquet snapshot path: no file, a file holding a table, or a file a
\* failed write left behind that read_parquet cannot read.
Absent == [kind |-> "absent"]
Corrupt == [kind |-> "corrupt"]
Snapshot(t) == [kind |-> "file", table |-> t]

\* os.path.exists
Exists(f) == f.kind # "absent"

\* How building one year ends: "ok", or the first step that raises / finds
\* nothing.  requests.get: Timeout, ConnectionError; raise_for_status:
\* HTTPError; the archive holds no member of the expected name; decode('utf-8')
\* raises; read_csv raises; to_parquet raises before opening the file, or
\* after truncating it.
GetErrors == {"timeout", "conn", "http"}
WriteErrors == {"write_pre", "write_partial"}
Outcomes == {"ok", "nomember", "decode", "parse"} \cup GetErrors \cup WriteErrors

NoNet == [y \in Years |-> "ok"]

\* The tuple load_itp_data returns.
Ret(a, b, ok) == [df_2025 |-> a, df_2024 |-> b, sucesso |-> ok]

Failure == Ret(None, None, FALSE)

DfOf(ret, y) == IF y = "2025" THEN ret.df_2025 ELSE ret.df_2024

\* What one execution of the body leaves: the returned tuple, the disk, the
\* branch taken, the years an HTTP GET was issued for, the message shown,
\* and whether to_parquet was reached and how it went.
BodyResult(ret, dk, path, fetched, msg, persist) ==
    [ret |-> ret, disk |-> dk, path |-> path, fetched |-> fetched,
     msg |-> msg, persist |-> persist]

\* The except clause a failed GET lands in.
GetFailure(kind, fetched, dk) ==
    BodyResult(Failure, dk, "download", fetched,
               CASE kind = "timeout" -> "timeout"
                 [] kind = "conn" -> "conexao"
                 [] OTHER -> "erro",
               "none")

\* df.to_parquet(path) that raises.
FailedWrite(dk, y, kind) ==
    IF kind = "write_partial" THEN [dk EXCEPT ![y] = Corrupt] ELSE dk

\* The branch taken when both snapshot files exist.
ReadSnapshots(dk) ==
    IF dk["2025"].kind = "corrupt" \/ dk["2024"].kind = "corrupt"
    THEN BodyResult(Failure, dk, "snapshot", {}, "erro", "none")
    ELSE BodyResult(Ret(dk["2025"].table, dk["2024"].table, TRUE),
                    dk, "snapshot", {}, "cache_carregado", "none")

\* Mutant of Persist: the second to_parquet is left out.
PersistFirstOnly(dk, rem, net) ==
    IF net["2025"] \in WriteErrors
    THEN [disk |-> FailedWrite(dk, "2025", net["2025"]), ok |-> FALSE]
    ELSE [disk |-> [dk EXCEPT !["2025"] = Snapshot(rem["2025"])], ok |-> TRUE]

\* df_2025.to_parquet(CACHE_2025); df_2024.to_parquet(CACHE_2024): the disk
\* they leave, and whether both returned.
Persist(dk, rem, net) ==
    IF net["2025"] \in WriteErrors
    THEN [disk |-> FailedWrite(dk, "2025", net["2025"]), ok |-> FALSE]
    ELSE LET dk1 == [dk EXCEPT !["2025"] = Snapshot(rem["2025"])]
         IN  IF net["2024"] \in WriteErrors
             THEN [disk |-> FailedWrite(dk1, "2024", net["2024"]), ok |-> FALSE]
             ELSE [disk |-> [dk1 EXCEPT !["2024"] = Snapshot(rem["2024"])],
                   ok |-> TRUE]

\* The branch taken otherwise: download, extract, parse, persist.
Download(dk, rem, net) ==
    IF net["2025"] \in GetErrors
    THEN GetFailure(net["2025"], {"2025"}, dk)
    ELSE IF net["2024"] \in GetErrors
    THEN GetFailure(net["2024"], Years, dk)
    ELSE IF net["2025"] = "decode" \/ net["2024"] = "decode"
    THEN BodyResult(Failure, dk, "download", Years, "erro", "none")
    ELSE IF net["2025"] = "nomember" \/ net["2024"] = "nomember"
    THEN BodyResult(Failure, dk, "download", Years, "csv_nao_encontrados", "none")
    ELSE IF net["2025"] = "parse" \/ net["2024"] = "parse"
    THEN BodyResult(Failure, dk, "download", Years, "erro", "none")
    ELSE LET p == Persist(dk, rem, net)
         IN  IF ~p.ok
             THEN BodyResult(Failure, p.disk, "download", Years, "erro", "failed")
             ELSE BodyResult(Ret(rem["2025"], rem["2024"], TRUE), p.disk,
                             "download", Years, "dados_processados", "ok")

\* The body of load_itp_data.
LoadBody(dk, rem, net) ==
    IF Exists(dk["2025"]) /\ Exists(dk["2024"])
    THEN ReadSnapshots(dk)
    ELSE Download(dk, rem, net)

\* Mutant of Fresh: the function is not memoised.
FreshNever(m, now) == FALSE

\* st.cache_resource(ttl=86400): an entry younger than the ttl is served.
Fresh(m, now) == m # None /\ now < m.at + TTL

\* A call of load_itp_data: the memoised value, or the body's result, which
\* is memoised whatever it is.
load_itp_data(m, now, dk, rem, net) ==
    IF Fresh(m, now)
    THEN [ret |-> m.val, disk |-> dk, path |-> "memo", fetched |-> {},
          msg |-> "memo", persist |-> "none", memo |-> m,
          net |-> NoNet, diskBefore |-> dk, at |-> now]
    ELSE LET b == LoadBody(dk, rem, net)
         IN  [ret |-> b.ret, disk |-> b.disk, path |-> b.path,
              fetched |-> b.fetched, msg |-> b.msg, persist |-> b.persist,
              memo |-> [at |-> now, val |-> b.ret],
              net |-> IF b.path = "download" THEN net ELSE NoNet,
              diskBefore |-> dk, at |-> now]

\* The outcomes worth drawing for a call: none is read unless the body
\* takes the download branch.
NetChoices(m, now, dk) ==
    IF Fresh(m, now) \/ (Exists(dk["2025"]) /\ Exists(dk["2024"]))
    THEN {NoNet}
    ELSE [Years -> Outcomes]

----------------------------------------------------------------------------
(* The script below the load: widgets, filter, export *)

Empty == <<>>

HasKeys(df) == "estado" \in df.cols /\ "entidade" \in df.cols

\* df['estado'].dropna().unique(), if the column is there
Estados(df) ==
    IF "estado" \in df.cols
    THEN {df.rows[i].estado : i \in 1..Len(df.rows)} \ {NA}
    ELSE {}

todos_estados(df_2025, df_2024) == Sorted(Estados(df_2025) \cup Estados(df_2024))

\* Mutant of EntidadesDoEstado: the entities of every state.
EntidadesDeTodos(df, sigla) ==
    IF HasKeys(df)
    THEN {df.rows[i].entidade : i \in 1..Len(df.rows)} \ {NA}
    ELSE {}

\* set(df[df['estado'] == sigla]['entidade'].dropna().unique()), if both
\* columns are there
EntidadesDoEstado(df, sigla) ==
    IF HasKeys(df)
    THEN {df.rows[i].entidade :
            i \in {j \in 1..Len(df.rows) : df.rows[j].estado = sigla}} \ {NA}
    ELSE {}

todas_entidades(df_2025, df_2024, sigla) ==
    Sorted(EntidadesDoEstado(df_2025, sigla) \cup EntidadesDoEstado(df_2024, sigla))

MatchesTerm(e, termo) == Contains(Lower(e), Lower(termo))

\* [e for e in todas if termo.lower() in e.lower()] if termo else todas
entidades_filtradas(todas, termo) ==
    IF termo # Empty
    THEN SelectSeq(todas, LAMBDA e : MatchesTerm(e, termo))
    ELSE todas

\* st.selectbox(options=[""] + lista, key=...): the session's value when it
\* is still an option, the first option otherwise.
Selectbox(lista, stored) ==
    LET options == <<Empty>> \o lista
    IN  IF stored \in Range(options) THEN stored ELSE options[1]

\* A cell compared with a selected value: a missing cell equals nothing.
CellEq(cell, v) == cell # NA /\ cell = v

\* Mutant of KeepRow: the entity comparison is left out.
KeepRowStateOnly(r, sigla, entidade) == CellEq(r.estado, sigla)

\* (df['estado'] == sigla) & (df['entidade'] == entidade), for one row
KeepRow(r, sigla, entidade) == CellEq(r.estado, sigla) /\ CellEq(r.entidade, entidade)

\* df[(df['estado'] == sigla) & (df['entidade'] == entidade)].copy(), or
\* pd.DataFrame() when a key column is missing
FilterRows(df, sigla, entidade) ==
    IF HasKeys(df)
    THEN Table(df.cols, SelectSeq(df.rows, LAMBDA r : KeepRow(r, sigla, entidade)))
    ELSE EmptyDataFrame

\* gerar_arquivo_excel: the workbook, or None after reporting the error.
gerar_arquivo_excel(df, raises) ==
    IF raises THEN None
    ELSE [sheet |-> "Dados ITP", header |-> df.cols, body |-> df.rows]

NomeMax == 40

nome_safe(entidade) == Prefix(ReplaceChar(entidade, "/", "_"), NomeMax)

\* One entry of arquivos_gerados.
Arquivo(ano, df, entidade, excel) ==
    [data |-> excel,
     nome |-> <<"questionario_itp_", ano, "_">> \o nome_safe(entidade) \o <<".xlsx">>,
     linhas |-> Len(df.rows),
     colunas |-> Cardinality(df.cols)]

\* Mutant of ExceptCatches: a bare `except:`.
ExceptCatchesAll(exc) == TRUE

\* Exceptions `except Exception` does not catch: Streamlit's script-control
\* exceptions derive from BaseException.
ExceptCatches(exc) == exc \notin {"StopException", "RerunException"}

\* What a run of the script renders; xfail: the exports that raised.
View(stage, estados, entidades, f25, f24, arquivos, excelErrors, erro, xfail) ==
    [stage |-> stage, estados |-> estados, entidades |-> entidades,
     filtrado |-> [y \in Years |-> IF y = "2025" THEN f25 ELSE f24],
     arquivos |-> arquivos,
     downloads |-> (IF "2025" \in DOMAIN arquivos THEN <<"2025">> ELSE <<>>)
                   \o (IF "2024" \in DOMAIN arquivos THEN <<"2024">> ELSE <<>>),
     excelErrors |-> excelErrors, erro |-> erro, xfail |-> xfail]

NoFiles == [y \in {} |-> None]

\* A run that ends before the buttons.
Early(stage, estados, entidades) ==
    View(stage, estados, entidades, EmptyDataFrame, EmptyDataFrame, NoFiles, {},
         FALSE, {})

\* Mutant of GerarBlock: gerar_arquivo_excel lets the exception out, and the
\* block's own handler ends it.
GerarBlockUncaught(df_2025, df_2024, sigla, entidade, estados, entidades, xfail) ==
    LET f25 == FilterRows(df_2025, sigla, entidade)
        f24 == FilterRows(df_2024, sigla, entidade)
        f(y) == IF y = "2025" THEN f25 ELSE f24
        raised == {y \in xfail : ~IsEmpty(f(y))}
        arquivos == [y \in {z \in Years : ~IsEmpty(f(z))} |->
                       Arquivo(y, f(y), entidade, gerar_arquivo_excel(f(y), FALSE))]
    IN  IF IsEmpty(f25) /\ IsEmpty(f24)
        THEN View("empty_result", estados, entidades, f25, f24, NoFiles, {},
                  FALSE, {})
        ELSE IF raised # {}
        THEN View("error", estados, entidades, f25, f24, NoFiles, {}, TRUE, raised)
        ELSE View("generated", estados, entidades, f25, f24, arquivos, {}, FALSE, {})

\* The `if btn_gerar:` block.  xfail: the years whose export raises.
GerarBlock(df_2025, df_2024, sigla, entidade, estados, entidades, xfail) ==
    LET f25 == FilterRows(df_2025, sigla, entidade)
        f24 == FilterRows(df_2024, sigla, entidade)
        f(y) == IF y = "2025" THEN f25 ELSE f24
        excel(y) == gerar_arquivo_excel(f(y), y \in xfail)
        feitos == {y \in Years : ~IsEmpty(f(y)) /\ excel(y) # None}
        falhos == {y \in Years : ~IsEmpty(f(y)) /\ excel(y) = None}
        arquivos == [y \in feitos |-> Arquivo(y, f(y), entidade, excel(y))]
    IN  IF IsEmpty(f25) /\ IsEmpty(f24)
        THEN IF ExceptCatches("StopException")
             THEN View("error", estados, entidades, f25, f24, NoFiles, {}, TRUE, {})
             ELSE View("empty_result", estados, entidades, f25, f24, NoFiles, {},
                       FALSE, {})
        ELSE View(IF feitos # {} THEN "generated" ELSE "no_files",
                  estados, entidades, f25, f24, arquivos, falhos, FALSE,
                  {y \in xfail : ~IsEmpty(f(y))})

Sel(a, b, c) == [state_select |-> a, search_input |-> b, entity_select |-> c]

NoSel == Sel(Empty, Empty, Empty)

Out(v, s) == [view |-> v, sel |-> s]

\* One run of the script after the load.  s: the session's widget values;
\* btn: the button pressed, if any.  A widget the run does not render loses
\* its value.
Script(ret, s, btn, xfail) ==
    IF ~ret.sucesso \/ ret.df_2025 = None \/ ret.df_2024 = None
    THEN Out(Early("load_failed", <<>>, <<>>), NoSel)
    ELSE
    LET estados == todos_estados(ret.df_2025, ret.df_2024)
        sigla == Selectbox(estados, s.state_select)
        todas == todas_entidades(ret.df_2025, ret.df_2024, sigla)
        termo == s.search_input
        filtradas == entidades_filtradas(todas, termo)
        entidade == Selectbox(filtradas, s.entity_select)
    IN  IF estados = <<>>
        THEN Out(Early("no_states", <<>>, <<>>), NoSel)
        ELSE IF sigla = Empty
        THEN Out(Early("need_state", estados, <<>>), NoSel)
        ELSE IF todas = <<>>
        THEN Out(Early("no_entities", estados, <<>>), Sel(sigla, Empty, Empty))
        ELSE IF termo # Empty /\ filtradas = <<>>
        THEN Out(Early("no_match", estados, <<>>), Sel(sigla, termo, Empty))
        ELSE IF entidade = Empty
        THEN Out(Early("need_entity", estados, filtradas), Sel(sigla, termo, Empty))
        ELSE IF btn = "limpar"
        THEN Out(Early("rerun", estados, filtradas), Sel(sigla, termo, entidade))
        ELSE IF btn = "gerar"
        THEN Out(GerarBlock(ret.df_2025, ret.df_2024, sigla, entidade,
                            estados, filtradas, xfail),
                 Sel(sigla, termo, entidade))
        ELSE Out(Early("idle", estados, filtradas), Sel(sigla, termo, entidade))

----------------------------------------------------------------------------
(* Script runs *)

TickStep == TTL \div 2

\* What the user may type in the search box.
Terms == {Empty, <<"p">>, <<"X">>, <<"y">>, <<"S">>}

\* The stages a run can end in, by the widgets it rendered.
ButtonStages == {"idle", "empty_result", "generated", "no_files", "error"}
EntityWidgetStages == ButtonStages \cup {"need_entity"}
SearchWidgetStages == EntityWidgetStages \cup {"no_match"}
StateWidgetStages == SearchWidgetStages \cup {"need_state", "no_entities"}

\* One run of the script, top to bottom: the load, then the page.
Run(s, btn) ==
    \E net \in NetChoices(memo, clock, disk) :
    \E xfail \in (IF btn = "gerar" THEN SUBSET Years ELSE {{}}) :
        LET L == load_itp_data(memo, clock, disk, remote, net)
            O == Script(L.ret, s, btn, xfail)
        IN  /\ memo' = L.memo
            /\ disk' = L.disk
            /\ lastLoad' = [path |-> L.path, ret |-> L.ret, fetched |-> L.fetched,
                            msg |-> L.msg, persist |-> L.persist, net |-> L.net,
                            diskBefore |-> L.diskBefore, at |-> L.at]
            /\ view' = O.view
            /\ sel' = O.sel
            /\ UNCHANGED <<clock, remote>>

\* A browser opens the page: a new session, widgets at their defaults.
NewSession ==
    /\ view.stage # "rerun"
    /\ Run(NoSel, "none")

\* The user picks an option of the state selectbox.
SelectState ==
    /\ view.stage \in StateWidgetStages
    /\ \E v \in {Empty} \cup Range(view.estados) :
        /\ v # sel.state_select
        /\ Run([sel EXCEPT !.state_select = v], "none")

\* The user edits the search box.
TypeSearch ==
    /\ view.stage \in SearchWidgetStages
    /\ \E t \in Terms :
        /\ t # sel.search_input
        /\ Run([sel EXCEPT !.search_input = t], "none")

\* The user picks an option of the entity selectbox.
SelectEntity ==
    /\ view.stage \in EntityWidgetStages
    /\ \E e \in {Empty} \cup Range(view.entidades) :
        /\ e # sel.entity_select
        /\ Run([sel EXCEPT !.entity_select = e], "none")

\* The user presses "Gerar Downloads".
ClickGerar ==
    /\ view.stage \in ButtonStages
    /\ Run(sel, "gerar")

\* The user presses "Limpar": the run ends in st.rerun().
ClickLimpar ==
    /\ view.stage \in ButtonStages
    /\ Run(sel, "limpar")

\* The run st.rerun() asked for.
Rerun ==
    /\ view.stage = "rerun"
    /\ Run(sel, "none")

\* Time passes.
Tick ==
    /\ clock < MaxTicks * TickStep
    /\ clock' = clock + TickStep
    /\ UNCHANGED <<remote, disk, memo, sel, view, lastLoad>>

NoLoad ==
    [path |-> "none", ret |-> Failure, fetched |-> {}, msg |-> "none",
     persist |-> "none", net |-> NoNet,
     diskBefore |-> [y \in Years |-> Absent], at |-> 0]

Init ==
    /\ clock = 0
    /\ remote \in [Years -> Datasets]
    /\ disk \in {[y \in Years |-> Absent], [y \in Years |-> Snapshot(OldDataset)]}
    /\ memo = None
    /\ sel = NoSel
    /\ view = Early("init", <<>>, <<>>)
    /\ lastLoad = NoLoad

Next ==
    \/ NewSession
    \/ SelectState
    \/ TypeSearch
    \/ SelectEntity
    \/ ClickGerar
    \/ ClickLimpar
    \/ Rerun
    \/ Tick

Spec == Init /\ [][Next]_vars

----------------------------------------------------------------------------
(* The generate step on its own: any loaded pair of tables, any selection *)

RECURSIVE SeqsUpTo(_, _)
\* The sequences over S of length at most n.
SeqsUpTo(S, n) ==
    IF n = 0 THEN {<<>>}
    ELSE LET shorter == SeqsUpTo(S, n - 1)
         IN  shorter \cup {Append(q, x) : q \in {t \in shorter : Len(t) = n - 1}, x \in S}

GenRows == {Row(e, n, 0) : e \in States \cup {NA}, n \in {PrefX, CamX, NA}}

GenTables ==
    {Table(AllCols, r) : r \in SeqsUpTo(GenRows, MaxRows)}
    \cup {Table({"estado", "valor"}, r) :
            r \in SeqsUpTo({Row(e, NA, 0) : e \in States \cup {NA}}, MaxRows)}

InitGen ==
    /\ clock = 0
    /\ remote \in [Years -> Datasets \cup GenTables]
    /\ remote["2025"] \in GenTables
    /\ remote["2024"] \in Datasets
    /\ disk = [y \in Years |-> Snapshot(remote[y])]
    /\ memo = [at |-> 0, val |-> Ret(remote["2025"], remote["2024"], TRUE)]
    /\ sel \in {Sel(a, Empty, e) : a \in States, e \in {PrefX, CamX}}
    /\ view = Early("idle", <<>>, <<>>)
    /\ lastLoad = NoLoad

\* The `if btn_gerar:` block applied to the loaded tables and the selection.
GerarFiltro ==
    /\ view.stage = "idle"
    /\ \E xfail \in SUBSET Years :
        view' = GerarBlock(memo.val.df_2025, memo.val.df_2024,
                           sel.state_select, sel.entity_select, <<>>, <<>>, xfail)
    /\ UNCHANGED <<clock, remote, disk, memo, sel, lastLoad>>

NextGen == GerarFiltro

SpecGen == InitGen /\ [][NextGen]_vars

----------------------------------------------------------------------------
(* Properties *)

\* The tables the current run was handed by load_itp_data.
Df(y) == DfOf(lastLoad.ret, y)

\* The tables of the generate step on its own.
GenDf(y) == DfOf(memo.val, y)

\* The run went through the `if btn_gerar:` block.
GerarRan == view.stage \in {"generated", "no_files", "empty_result", "error"}

\* The rows of df that hold both the state and the entity.
MatchIdx(df, a, e) ==
    {i \in 1..Len(df.rows) : df.rows[i].estado = a /\ df.rows[i].entidade = e}

\* The pair occurs together in a row of df.
PairIn(df, a, e) == HasKeys(df) /\ MatchIdx(df, a, e) # {}

\* C1: when the selected (state, entity) pair occurs together in a row of a
\* year's table, the generate step's filtered table for that year is not
\* empty, keeps the table's columns, holds only rows of the table that carry
\* both the selected state and the selected entity, and holds as many rows as
\* the table has such rows (none is dropped).
C1_FilterExact ==
    \A y \in Years :
        (GerarRan /\ PairIn(GenDf(y), sel.state_select, sel.entity_select)) =>
            LET f == view.filtrado[y]
                df == GenDf(y)
            IN  /\ Len(f.rows) > 0
                /\ f.cols = df.cols
                /\ \A i \in 1..Len(f.rows) :
                      /\ f.rows[i] \in Range(df.rows)
                      /\ f.rows[i].estado = sel.state_select
                      /\ f.rows[i].entidade = sel.entity_select
                /\ Len(f.rows) =
                      Cardinality(MatchIdx(df, sel.state_select, sel.entity_select))

\* A generate step that kept one row of a two-row 2025 table and dropped the
\* other.
C1_Witness ==
    /\ GerarRan
    /\ PairIn(GenDf("2025"), sel.state_select, sel.entity_select)
    /\ Len(GenDf("2025").rows) = 2
    /\ Len(view.filtrado["2025"].rows) = 1

\* C2: when the selected (state, entity) pair occurs in neither table, the
\* generate step filters both years to empty tables, ends in the empty-result
\* outcome, builds no export, offers no download, and the except handler
\* reports no error.
C2_AbsentPairEmptyResult ==
    (/\ GerarRan
     /\ ~PairIn(GenDf("2025"), sel.state_select, sel.entity_select)
     /\ ~PairIn(GenDf("2024"), sel.state_select, sel.entity_select)) =>
        /\ IsEmpty(view.filtrado["2025"])
        /\ IsEmpty(view.filtrado["2024"])
        /\ view.stage = "empty_result"
        /\ view.arquivos = NoFiles
        /\ view.downloads = <<>>
        /\ view.excelErrors = {}
        /\ ~view.erro

\* A generate step for an absent pair whose state does occur in the 2025
\* table, with another entity.
C2_Witness ==
    /\ GerarRan
    /\ ~PairIn(GenDf("2025"), sel.state_select, sel.entity_select)
    /\ ~PairIn(GenDf("2024"), sel.state_select, sel.entity_select)
    /\ HasKeys(GenDf("2025"))
    /\ \E i \in 1..Len(GenDf("2025").rows) :
          /\ GenDf("2025").rows[i].estado = sel.state_select
          /\ GenDf("2025").rows[i].entidade \notin {NA, sel.entity_select}
    /\ view.stage = "empty_result"

\* A step that is a run of the script, and so a call of load_itp_data.
IsCall == clock' = clock

\* C3: a call of load_itp_data made after another one and less than 24 hours
\* after the build of the entry that one returned, returns the same tuple and
\* issues no HTTP GET, whatever the disk, the clock below that limit and the
\* runs in between did.
C3_CacheIdempotent ==
    [][(IsCall /\ lastLoad.path # "none" /\ clock < memo.at + TTL) =>
          (lastLoad'.ret = lastLoad.ret /\ lastLoad'.fetched = {})]_vars

\* A call served from the memo, later than the build, with tables.
C3_Witness ==
    /\ lastLoad.path = "memo"
    /\ lastLoad.at > memo.at
    /\ lastLoad.ret.sucesso
    /\ lastLoad.ret.df_2025 = remote["2025"]

\* The failures C4 lists for one year's build.
BuildErrors == GetErrors \cup {"nomember", "decode", "parse"}

\* C4: when one year's build fails and the other year's would succeed, the
\* other year is fetched, its table is returned to the caller, and the run
\* is not stopped for a failed load.
C4_OtherYearStillBuilt ==
    \A y, z \in Years :
        (/\ y # z
         /\ lastLoad.path = "download"
         /\ lastLoad.net[y] \in BuildErrors
         /\ lastLoad.net[z] = "ok") =>
            /\ z \in lastLoad.fetched
            /\ Df(z) = remote[z]
            /\ view.stage # "load_failed"

\* C5: when the body of load_itp_data runs and a year's snapshot file
\* exists, that year's table is the snapshot's and no HTTP GET is issued for
\* that year, whether or not the other year's snapshot exists (no snapshot
\* being unreadable).
C5_SnapshotUsedPerYear ==
    \A y \in Years :
        (/\ lastLoad.path \in {"snapshot", "download"}
         /\ lastLoad.diskBefore[y].kind = "file"
         /\ \A z \in Years : lastLoad.diskBefore[z].kind # "corrupt") =>
            /\ Df(y) = lastLoad.diskBefore[y].table
            /\ y \notin lastLoad.fetched

\* C6: after a call of load_itp_data that took the download branch and
\* returned success, both snapshot files exist and hold the returned tables;
\* and a call in which to_parquet raised did not return success.
C6_PersistedBeforeReturn ==
    /\ (lastLoad.path = "download" /\ lastLoad.ret.sucesso) =>
          \A y \in Years : disk[y] = Snapshot(Df(y))
    /\ lastLoad.persist = "failed" => ~lastLoad.ret.sucesso

\* A successful download whose tables are on disk.
C6_Witness ==
    /\ lastLoad.path = "download"
    /\ lastLoad.ret.sucesso
    /\ lastLoad.persist = "ok"
    /\ \A y \in Years : disk[y].kind = "file"

\* C7: the run that follows a failed load calls the loader's body again
\* instead of being handed the earlier failure.
C7_FailureNotReplayed ==
    [][(IsCall /\ lastLoad.path # "none" /\ ~lastLoad.ret.sucesso) =>
          lastLoad'.path \in {"snapshot", "download"}]_vars

\* C8: when one year's export raises and the other year's filtered table is
\* not empty and its export succeeds, the other year's workbook is offered
\* for download, the failure is reported for the failing year alone, and the
\* except handler of the block reports nothing.
C8_ExportFailureIsolated ==
    \A y, z \in Years :
        (/\ y # z
         /\ GerarRan
         /\ z \in view.xfail
         /\ ~IsEmpty(view.filtrado[y])
         /\ y \notin view.xfail) =>
            /\ y \in Range(view.downloads)
            /\ view.arquivos[y].data = gerar_arquivo_excel(view.filtrado[y], FALSE)
            /\ view.excelErrors = {z}
            /\ z \notin Range(view.downloads)
            /\ ~view.erro

\* The 2025 export raised and the 2024 workbook is offered.
C8_Witness ==
    /\ view.stage = "generated"
    /\ view.xfail = {"2025"}
    /\ view.downloads = <<"2024">>
    /\ ~IsEmpty(view.filtrado["2025"])

\* C9: the run that follows pressing "Limpar" starts from an empty
\* selection: state, search term and entity are all empty after it.
C9_LimparResets ==
    [][(IsCall /\ view.stage = "rerun") => sel' = NoSel]_vars

\* C10: a run reaches the generate step only with a selected state that is
\* one of the listed states, the sorted union of both years' state codes, and
\* a selected entity that is one of that state's entities in either year and
\* matches the search term; so some year's filtered table is not empty and
\* the empty-result branch is not taken.
C10_GerarNeverEmpty ==
    GerarRan =>
        /\ view.estados = Sorted(Estados(Df("2025")) \cup Estados(Df("2024")))
        /\ sel.state_select \in Range(view.estados)
        /\ sel.entity_select \in
              EntidadesDoEstado(Df("2025"), sel.state_select)
              \cup EntidadesDoEstado(Df("2024"), sel.state_select)
        /\ sel.entity_select \in Range(view.entidades)
        /\ sel.search_input # Empty =>
              Contains(Lower(sel.entity_select), Lower(sel.search_input))
        /\ \E y \in Years : ~IsEmpty(view.filtrado[y])
        /\ view.stage \notin {"empty_result", "error"}

\* A generate step reached through a search term, for an entity one year
\* lacks.
C10_Witness ==
    /\ view.stage = "generated"
    /\ sel.search_input # Empty
    /\ IsEmpty(view.filtrado["2024"])
    /\ ~IsEmpty(view.filtrado["2025"])

====
